---- MODULE Spec2Model ----
(***************************************************************************)
(* rapla-ical-proxy: the HTML timetable parser (src/src/parser.rs).        *)
(*                                                                         *)
(* Text is modelled character by character: a string is a sequence of      *)
(* one-character strings, so that split, trim, parse and entity decoding   *)
(* are computed the way the code computes them.  A document is modelled by *)
(* what the CSS selectors of parser.rs yield on it: the title element, the *)
(* week blocks, and, per week block, its tr and td elements (td elements   *)
(* may hold a nested table, whose tr and td elements the descendant        *)
(* selectors "tr" and "td" reach as well).                                 *)
(***************************************************************************)
EXTENDS Integers, Sequences, FiniteSets, TLC

(***************************************************************************)
(* Option and Result values.                                               *)
(***************************************************************************)
None == <<>>
Some(x) == <<x>>
IsSome(o) == Len(o) = 1
Unwrap(o) == o[1]

Ok(v) == [ok |-> TRUE, val |-> v]

\* ParseErrorDetails::Select { query }
SelectError(query) == [ok |-> FALSE, kind |-> "Select", query |-> query]

\* ParseErrorDetails::Html { details, html }, built by error!(html = ..., ...)
HtmlError(details, html) ==
    [ok |-> FALSE, kind |-> "Html", details |-> details, html |-> html]

\* The same, for the two messages that name the week ordinal ("in week #{}").
WeekNumberError(details, html, ordinal) ==
    [ok |-> FALSE, kind |-> "Html", details |-> details, html |-> html,
     week |-> ordinal]

(***************************************************************************)
(* Strings.                                                                *)
(***************************************************************************)
Digits == {"0", "1", "2", "3", "4", "5", "6", "7", "8", "9"}

DigitVal(c) ==
    CASE c = "0" -> 0 [] c = "1" -> 1 [] c = "2" -> 2 [] c = "3" -> 3
      [] c = "4" -> 4 [] c = "5" -> 5 [] c = "6" -> 6 [] c = "7" -> 7
      [] c = "8" -> 8 [] c = "9" -> 9

\* Whether pat occurs in s at position i (1-based).
MatchesAt(s, pat, i) ==
    /\ i + Len(pat) - 1 <= Len(s)
    /\ \A k \in 1..Len(pat) : s[i + k - 1] = pat[k]

StartsWith(s, pat) == MatchesAt(s, pat, 1)

\* str::split(pat): the pieces of s between the non-overlapping occurrences
\* of pat found left to right; always at least one piece, possibly empty.
RECURSIVE SplitFrom(_, _, _, _)
SplitFrom(s, pat, from, i) ==
    IF i > Len(s) - Len(pat) + 1
    THEN <<SubSeq(s, from, Len(s))>>
    ELSE IF MatchesAt(s, pat, i)
         THEN <<SubSeq(s, from, i - 1)>>
                  \o SplitFrom(s, pat, i + Len(pat), i + Len(pat))
         ELSE SplitFrom(s, pat, from, i + 1)

Split(s, pat) == SplitFrom(s, pat, 1, 1)

\* Iterator::nth(n), zero-based.
Nth(seq, n) == IF n + 1 <= Len(seq) THEN Some(seq[n + 1]) ELSE None

\* str::trim_end_matches(c)
RECURSIVE TrimEndMatches(_, _)
TrimEndMatches(s, c) ==
    IF Len(s) > 0 /\ s[Len(s)] = c
    THEN TrimEndMatches(SubSeq(s, 1, Len(s) - 1), c)
    ELSE s

\* str::trim_start(), for the whitespace chrono skips before a number.
RECURSIVE TrimStart(_)
TrimStart(s) ==
    IF Len(s) > 0 /\ s[1] = " " THEN TrimStart(Tail(s)) ELSE s

RECURSIVE DigitsValue(_, _)
DigitsValue(s, acc) ==
    IF s = <<>> THEN acc ELSE DigitsValue(Tail(s), 10 * acc + DigitVal(s[1]))

\* str::parse::<usize>() and str::parse::<u32>(): an optional "+", then one
\* or more decimal digits and nothing else.  (The inputs of this model have at
\* most four digits, so the overflow error of the code is out of reach.)
ParseUnsigned(s) ==
    LET body == IF Len(s) > 0 /\ s[1] = "+" THEN Tail(s) ELSE s
    IN  IF Len(body) > 0 /\ \A k \in 1..Len(body) : body[k] \in Digits
        THEN Some(DigitsValue(body, 0))
        ELSE None

\* [String]::join(sep)
RECURSIVE Join(_, _)
Join(strs, sep) ==
    IF Len(strs) = 0 THEN <<>>
    ELSE IF Len(strs) = 1 THEN strs[1]
    ELSE strs[1] \o sep \o Join(Tail(strs), sep)

Amp == <<"&", "a", "m", "p", ";">>
Nbsp == <<"&", "n", "b", "s", "p", ";">>
Br == <<"<", "b", "r", ">">>

\* html_escape::decode_html_entities, for the two named entities the inputs
\* of this model use: "&amp;" becomes "&", "&nbsp;" becomes U+00A0.
RECURSIVE DecodeFrom(_, _)
DecodeFrom(s, i) ==
    IF i > Len(s) THEN <<>>
    ELSE IF MatchesAt(s, Amp, i) THEN <<"&">> \o DecodeFrom(s, i + Len(Amp))
    ELSE IF MatchesAt(s, Nbsp, i) THEN <<"U+00A0">> \o DecodeFrom(s, i + Len(Nbsp))
    ELSE <<s[i]>> \o DecodeFrom(s, i + 1)

decode_html_entities(s) == DecodeFrom(s, 1)

(***************************************************************************)
(* chrono: NaiveTime and NaiveDate.                                        *)
(***************************************************************************)
Time(h, m) == [hour |-> h, minute |-> m]

\* The leading run of at most max digits of s.
RECURSIVE DigitRun(_, _)
DigitRun(s, max) ==
    IF max > 0 /\ Len(s) > 0 /\ s[1] \in Digits
    THEN <<s[1]>> \o DigitRun(Tail(s), max - 1)
    ELSE <<>>

\* NaiveTime::parse_from_str(s, "%H:%M"): one or two digits, ":", one or two
\* digits, and nothing after; whitespace before a number is skipped; the
\* hour is in 0..23 and the minute in 0..59.
ParseTime(s) ==
    LET s1 == TrimStart(s)
        hh == DigitRun(s1, 2)
        s2 == SubSeq(s1, Len(hh) + 1, Len(s1))
        s3 == IF StartsWith(s2, <<":">>) THEN TrimStart(Tail(s2)) ELSE <<>>
        mm == DigitRun(s3, 2)
    IN  IF /\ Len(hh) > 0
           /\ StartsWith(s2, <<":">>)
           /\ Len(mm) > 0
           /\ Len(mm) = Len(s3)
           /\ DigitsValue(hh, 0) <= 23
           /\ DigitsValue(mm, 0) <= 59
        THEN Some(Time(DigitsValue(hh, 0), DigitsValue(mm, 0)))
        ELSE None

Date(y, m, d) == [year |-> y, month |-> m, day |-> d]

IsLeapYear(y) == (y % 4 = 0 /\ y % 100 # 0) \/ y % 400 = 0

DaysInMonth(y, m) ==
    IF m = 2 THEN (IF IsLeapYear(y) THEN 29 ELSE 28)
    ELSE IF m \in {4, 6, 9, 11} THEN 30 ELSE 31

\* NaiveDate::from_ymd_opt
from_ymd_opt(y, m, d) ==
    IF m \in 1..12 /\ d >= 1 /\ d <= DaysInMonth(y, m)
    THEN Some(Date(y, m, d))
    ELSE None

NextDay(date) ==
    IF date.day < DaysInMonth(date.year, date.month)
    THEN Date(date.year, date.month, date.day + 1)
    ELSE IF date.month < 12
         THEN Date(date.year, date.month + 1, 1)
         ELSE Date(date.year + 1, 1, 1)

\* NaiveDate + Duration::try_days(n), n >= 0
RECURSIVE AddDays(_, _)
AddDays(date, n) == IF n = 0 THEN date ELSE AddDays(NextDay(date), n - 1)

(***************************************************************************)
(* The document, as the selectors of parser.rs see it.                     *)
(*   html.title : Option of the inner HTML of the first "title" element    *)
(*   html.weeks : the elements "div.calendar > table.week_table > tbody"   *)
(*   week.number: Option of the inner HTML of its first "th.week_number"   *)
(*   week.header: Option of the inner HTML of its first                    *)
(*                "tr > td.week_header > nobr"                             *)
(*   week.rows  : its own tr elements, each the sequence of its td cells   *)
(*   cell.class : Option of the first class token of the td                *)
(*   cell.links : inner HTML of the elements ":is(a, span.link)" in the    *)
(*                cell, in document order                                  *)
(*   cell.resources, cell.persons : inner HTML of the "span.resource" and  *)
(*                "span.person" elements in the cell, in document order    *)
(*   cell.table : the tr elements of a table nested in the cell            *)
(***************************************************************************)
week_separatorcell == <<"w", "e", "e", "k", "_", "s", "e", "p", "a", "r", "a", "t", "o", "r", "c", "e", "l", "l">>
week_block == <<"w", "e", "e", "k", "_", "b", "l", "o", "c", "k">>

Last(seq) == IF Len(seq) = 0 THEN None ELSE Some(seq[Len(seq)])

\* str::trim(), on the whitespace the inputs use (spaces).
Trim(str) == TrimEndMatches(TrimStart(str), " ")

\* select!(row, "td"): every td below the tr, in document order; the cells
\* of a nested table follow the cell that holds the table.
RECURSIVE SelectTd(_), SelectTdOfTable(_)
SelectTd(row) ==
    IF row = <<>> THEN <<>>
    ELSE <<row[1]>> \o SelectTdOfTable(row[1].table) \o SelectTd(Tail(row))
SelectTdOfTable(rows) ==
    IF rows = <<>> THEN <<>>
    ELSE SelectTd(rows[1]) \o SelectTdOfTable(Tail(rows))

\* select!(element, "tr"): every tr below the week block, in document order;
\* the rows of a nested table follow the row that holds the table.
RECURSIVE SelectTr(_), SelectTrOfRow(_)
SelectTr(rows) ==
    IF rows = <<>> THEN <<>>
    ELSE <<rows[1]>> \o SelectTrOfRow(rows[1]) \o SelectTr(Tail(rows))
SelectTrOfRow(row) ==
    IF row = <<>> THEN <<>>
    ELSE SelectTr(row[1].table) \o SelectTrOfRow(Tail(row))

\* column.html(), cut down to the opening tag and the text of the cell.
ColumnHtml(cell) ==
    <<"<", "t", "d">>
        \o (IF IsSome(cell.class)
            THEN <<" ", "c", "l", "a", "s", "s", "=">> \o Unwrap(cell.class)
            ELSE <<>>)
        \o <<">">>
        \o (IF IsSome(Last(cell.links)) THEN Unwrap(Last(cell.links)) ELSE <<>>)

(***************************************************************************)
(* parse_event_details                                                     *)
(***************************************************************************)
\* ParseStart with the empty token read as 08:00.
ParseStartDefaulting(token) ==
    IF token = <<>> THEN Some(Time(8, 0)) ELSE ParseTime(token)

\* NaiveTime::parse_from_str(start token, "%H:%M")
ParseStart(token) == ParseTime(token)

\* The end time: an empty token after the marker means 18:00.
ParseEnd(end_time_raw) ==
    IF end_time_raw = <<>> THEN Some(Time(18, 0)) ELSE ParseTime(end_time_raw)

\* NormalizeStart that tests the hour alone.
NormalizeStartByHour(start) ==
    IF start.hour = 0 THEN Time(8, 0) ELSE start

\* A start of 00:00 is shown as 08:00.
NormalizeStart(start) ==
    IF start.hour = 0 /\ start.minute = 0 THEN Time(8, 0) ELSE start

\* EndToken that reads a missing end token as an empty one.
EndTokenOrEmpty(times_raw_split) ==
    IF Len(times_raw_split) >= 2 THEN Some(times_raw_split[2]) ELSE Some(<<>>)

\* Iterator::next() on the rest of times_raw.split("&nbsp;-") after the
\* start token.
EndToken(times_raw_split) == Nth(times_raw_split, 1)

DecodeAll(spans) == [i \in 1..Len(spans) |-> decode_html_entities(spans[i])]

\* Location that takes the first resource.
LocationFirst(resources) == Nth(resources, 0)

Location(resources) == Last(resources)

Description(resources) ==
    IF resources # <<>> THEN Some(Join(resources, <<",", " ">>)) ELSE None

Organizer(persons) ==
    IF persons # <<>> THEN Some(Join(persons, <<",", " ">>)) ELSE None

parse_event_details(element, date) ==
    LET link == Last(element.links)
    IN  IF ~IsSome(link) THEN SelectError(":is(a, span.link)")
        ELSE
        LET details == Unwrap(link)
            details_split == Split(details, Br)
            times_raw == details_split[1]
            times_raw_split == Split(times_raw, Nbsp \o <<"-">>)
            start == ParseStart(times_raw_split[1])
            end_time_raw == EndToken(times_raw_split)
            end == ParseEnd(Unwrap(end_time_raw))
            title == Nth(details_split, 1)
            resources == DecodeAll(element.resources)
            persons == DecodeAll(element.persons)
        IN  IF ~IsSome(start)
            THEN HtmlError("couldn't parse event start time", times_raw)
            ELSE IF ~IsSome(end_time_raw)
            THEN HtmlError("missing event end time in", times_raw)
            ELSE IF ~IsSome(end)
            THEN HtmlError("couldn't parse event end time", times_raw)
            ELSE IF ~IsSome(title)
            THEN HtmlError("couldn't find event title", details)
            ELSE Ok([date |-> date,
                     start |-> NormalizeStart(Unwrap(start)),
                     end |-> Unwrap(end),
                     title |-> decode_html_entities(Unwrap(title)),
                     location |-> Location(resources),
                     organizer |-> Organizer(persons),
                     description |-> Description(resources)])

(***************************************************************************)
(* parse_week                                                              *)
(***************************************************************************)
\* DayMonthToken that takes the last token of the header.
DayMonthTokenLast(week_header) == Last(Split(week_header, <<" ">>))

\* week_header.split(' ').nth(1)
DayMonthToken(week_header) == Nth(Split(week_header, <<" ">>), 1)

\* The Monday of the week, from the header text and the year.
WeekMonday(element, start_year) ==
    IF ~IsSome(element.header) THEN SelectError("tr > td.week_header > nobr")
    ELSE
    LET week_header == Unwrap(element.header)
        token == DayMonthToken(week_header)
        day_month == Split(TrimEndMatches(Unwrap(token), "."), <<".">>)
        start_day == ParseUnsigned(day_month[1])
        start_month == ParseUnsigned(day_month[2])
        monday == from_ymd_opt(start_year, Unwrap(start_month), Unwrap(start_day))
    IN  IF ~IsSome(token)
        THEN HtmlError("couldn't find day and month in week header", week_header)
        ELSE IF Len(day_month) # 2
        THEN HtmlError("expected day + month information in week header", week_header)
        ELSE IF ~IsSome(start_day)
        THEN HtmlError("couldn't parse day in week header", week_header)
        ELSE IF ~IsSome(start_month)
        THEN HtmlError("couldn't parse month in week header", week_header)
        ELSE IF ~IsSome(monday)
        THEN HtmlError("week start date appears to be an invalid date", week_header)
        ELSE Ok(Unwrap(monday))

\* NextDayIndex that counts every cell that is not an event cell.
NextDayIndexAnyOtherCell(class, day_index) ==
    IF class # week_block THEN day_index + 1 ELSE day_index

\* The day counter after a cell of the given class.
NextDayIndex(class, day_index) ==
    IF StartsWith(class, week_separatorcell) THEN day_index + 1 ELSE day_index

\* ColumnStep that drops a cell it cannot parse instead of failing.
ColumnStepSkippingFailures(column, monday, day_index) ==
    IF ~IsSome(column.class)
    THEN [day_index |-> day_index, out |-> Ok(None)]
    ELSE
    LET class == Unwrap(column.class)
        n == IF StartsWith(class, week_separatorcell) THEN day_index + 1 ELSE day_index
    IN  IF class # week_block
        THEN [day_index |-> n, out |-> Ok(None)]
        ELSE LET r == parse_event_details(column, AddDays(monday, n))
             IN  [day_index |-> n,
                  out |-> IF r.ok THEN Ok(Some(r.val)) ELSE Ok(None)]

\* One pass of the loop over the cells of a row: the new day counter, and
\* whether the cell is skipped, yields an event, or ends the parse.
\* (Duration::try_days fails only beyond 10^11 days, which no row of this
\* model reaches, so the Generic error of the code does not occur.)
ColumnStep(column, monday, day_index) ==
    IF ~IsSome(column.class)
    THEN [day_index |-> day_index,
          out |-> HtmlError("expected element to have a class", ColumnHtml(column))]
    ELSE
    LET class == Unwrap(column.class)
        n == NextDayIndex(class, day_index)
    IN  IF class # week_block
        THEN [day_index |-> n, out |-> Ok(None)]
        ELSE LET r == parse_event_details(column, AddDays(monday, n))
             IN  [day_index |-> n,
                  out |-> IF r.ok THEN Ok(Some(r.val)) ELSE r]

(***************************************************************************)
(* parse_calendar                                                          *)
(***************************************************************************)
\* The week number of a week block, or the failure; ordinal is idx + 1.
WeekNumber(week_element, ordinal) ==
    IF ~IsSome(week_element.number) THEN SelectError("th.week_number")
    ELSE
    LET week_number_html == Unwrap(week_element.number)
        token == Nth(Split(week_number_html, <<" ">>), 1)
        week_number == ParseUnsigned(Unwrap(token))
    IN  IF ~IsSome(token)
        THEN WeekNumberError("malformed calendar week number: missing second element",
                             week_number_html, ordinal)
        ELSE IF ~IsSome(week_number)
        THEN WeekNumberError("malformed calendar week number: not a number",
                             week_number_html, ordinal)
        ELSE Ok(Unwrap(week_number))

\* IsRollover without the test that spares the first week block.
IsRolloverAnyIndex(week_number, idx) == week_number = 1

\* Whether the year advances before this week block.
IsRollover(week_number, idx) == week_number = 1 /\ idx > 0

(***************************************************************************)
(* State.  parse_calendar runs on one document; its loops are stepped one  *)
(* week block, one row and one cell at a time.                             *)
(***************************************************************************)
VARIABLES
    input,        \* the arguments: [html, start_year]
    pc,           \* "title", "weeks", "rows", "columns" or "done"
    start_year,   \* the working year (the mutable parameter)
    name,         \* Calendar.name once the title is read
    events,       \* the accumulator of parse_calendar
    idx,          \* zero-based index of the week block being scanned
    monday,       \* parse_week: the Monday of the current week
    week_events,  \* parse_week: its accumulator
    row,          \* parse_week: how many tr elements the row iterator has yielded
    column,       \* parse_week: how many td elements of the row were visited
    day_index,    \* parse_week: the day counter of the current row
    result,       \* None while running, then Some(Ok(Calendar)) or Some(error)
    calls,        \* history: the (idx, year) of every call of parse_week
    scanned       \* history: the places visited, <<week, row, column>>

\* The proxy handler around parse_calendar (proxy.rs).
VARIABLES
    response      \* None until handle_calendar's result is turned into a response

\* The cache middleware (cache.rs).
VARIABLES
    max_size,     \* Config.max_size
    now,          \* the clock, in units of which Ttl is a multiple
    cache,        \* per key: empty, a placeholder or a resident response
    requests,     \* per request of cache_middleware: its position and response
    tasks,        \* per request: the expiry task it spawned
    history       \* history, per key: what happened to its entries so far

\* The resolver middleware (resolver.rs).
VARIABLES
    request_uri,  \* the URI of the request
    outcome       \* None until resolver_middleware has answered

parser_vars == <<input, pc, start_year, name, events, idx, monday, week_events,
                 row, column, day_index, result, calls, scanned>>
cache_vars == <<max_size, now, cache, requests, tasks, history>>
resolver_vars == <<request_uri, outcome>>

vars == <<parser_vars, response, cache_vars, resolver_vars>>

\* The cache middleware before configuration: no request was ever made.
CacheIdle ==
    /\ max_size = 0
    /\ now = 0
    /\ cache = <<>>
    /\ requests = <<>>
    /\ tasks = <<>>
    /\ history = <<>>

\* The resolver middleware with no request at hand.
ResolverIdle ==
    /\ request_uri = <<>>
    /\ outcome = <<>>

\* The week block under the cursor, its rows and the cells of the current row.
CurrentWeek == input.html.weeks[idx + 1]
CurrentRows == SelectTr(CurrentWeek.rows)
CurrentColumns == SelectTd(CurrentRows[row])

(***************************************************************************)
(* Inputs.                                                                 *)
(***************************************************************************)
MaxWeeks == 3
MaxCells == 3
MaxSpans == 2

SeqsUpTo(S, n) == UNION {[1..k -> S] : k \in 0..n}

Cell(class, links, resources, persons, table) ==
    [class |-> class, links |-> links, resources |-> resources,
     persons |-> persons, table |-> table]

PlainCell(class) == Cell(class, <<>>, <<>>, <<>>, <<>>)
EventCell(links) == Cell(Some(week_block), links, <<>>, <<>>, <<>>)

Week(number, header, rows) == [number |-> number, header |-> header, rows |-> rows]

Document(title, weeks) == [title |-> title, weeks |-> weeks]

DetailsA == <<"0", "8", ":", "0", "0">> \o Nbsp \o <<"-", "0", "9", ":", "3", "0">> \o Br \o <<"M", "a", "t", "h">>
DetailsB == <<"1", "3", ":", "1", "5">> \o Nbsp \o <<"-", "1", "4", ":", "4", "5">> \o Br \o <<"P", "h", "y", "s", "i", "c", "s">>
DetailsC == <<"1", "0", ":", "0", "0">> \o Nbsp \o <<"-", "1", "1", ":", "0", "0">> \o Br \o <<"L", "a", "b">>
DetailsBad == <<"s", "o", "o", "n">> \o Br \o <<"E", "x", "a", "m">>

SeparatorCell == PlainCell(Some(week_separatorcell))
SeparatorBlackCell == PlainCell(Some(week_separatorcell \o <<"_", "b", "l", "a", "c", "k">>))
SmallSeparatorCell == PlainCell(Some(<<"w", "e", "e", "k", "_", "s", "m", "a", "l", "l", "s", "e", "p", "a", "r", "a", "t", "o", "r", "c", "e", "l", "l">>))
NoClassCell == PlainCell(None)
EventCellA == EventCell(<<DetailsA>>)
EventCellB == EventCell(<<DetailsB>>)
EventCellBad == EventCell(<<DetailsBad>>)
\* A cell whose nested table has one row: a separator and an event cell.
NestedTableCell ==
    Cell(Some(<<"w", "e", "e", "k", "_", "e", "m", "p", "t", "y", "c", "e", "l", "l">>), <<>>, <<>>, <<>>,
         << <<SeparatorCell, EventCell(<<DetailsC>>)>> >>)

\* The first row of a week block: the th.week_number and td.week_header cells.
HeaderRow == <<PlainCell(Some(<<"w", "e", "e", "k", "_", "h", "e", "a", "d", "e", "r">>))>>

Title == <<" ", "T", "I", "N", "F", "2", "3", " ">>
NumberKW12 == <<"K", "W", " ", "1", "2">>
HeaderDec29 == <<"M", "o", " ", "2", "9", ".", "1", "2", ".">>

\* Week blocks for the documents of several weeks: a first week of the
\* year, a week whose Monday exists in leap years only, a week whose number
\* is not a number, and a first week of the year with a malformed event cell.
WeekPool ==
    { Week(Some(<<"K", "W", " ", "1">>), Some(<<"M", "o", " ", "0", "1", ".", "0", "1", ".">>),
           <<HeaderRow, <<EventCellA>>>>),
      Week(Some(<<"K", "W", " ", "9">>), Some(<<"D", "o", " ", "2", "9", ".", "0", "2", ".">>),
           <<HeaderRow, <<SeparatorCell, EventCellB>>>>),
      Week(Some(<<"K", "W", " ", "x">>), Some(<<"M", "o", " ", "0", "8", ".", "0", "1", ".">>),
           <<HeaderRow, <<EventCellA>>>>),
      Week(Some(<<"K", "W", " ", "1">>), Some(<<"M", "o", " ", "3", "0", ".", "1", "2", ".">>),
           <<HeaderRow, <<EventCellB, SeparatorCell, EventCellBad>>, <<EventCellA>>>>) }

StartYears == {2023, 2024}

\* Documents of up to MaxWeeks week blocks, with and without a title.
WeekDocuments ==
    { Document(title, weeks) :
        title \in {None, Some(Title)}, weeks \in SeqsUpTo(WeekPool, MaxWeeks) }

NumberPool ==
    { None, Some(<<"K", "W">>), Some(NumberKW12), Some(<<"K", "W", " ", " ", "1", "2">>),
      Some(<<"K", "W", " ", "+", "1">>), Some(<<"K", "W", " ", "1", "2", "a">>) }

HeaderPool ==
    { None, Some(<<"M", "o", " ", "2", "3", ".", "0", "3", ".">>), Some(<<"K", "W", " ", "1", "2", " ", "2", "3", ".", "0", "3", ".">>),
      Some(<<"M", "o", " ", "2", "3", ".", "0", "3">>), Some(<<"M", "o">>),
      Some(<<"M", "o", " ", "2", "3", ".", "0", "3", ".", "2", "0", "2", "6">>), Some(<<"M", "o", " ", "3", "1", ".", "0", "4", ".">>),
      Some(<<"M", "o", " ", "x", ".", "0", "3", ".">>), Some(<<"M", "o", " ", "2", "3", ".", "y", ".">>),
      Some(<<"D", "o", " ", "2", "9", ".", "0", "2", ".">>) }

\* Documents of one week block, over the week number labels and header texts.
HeaderDocuments ==
    { Document(Some(Title),
               <<Week(number, header, <<HeaderRow, <<SeparatorCell, EventCellA>>>>)>>) :
        number \in NumberPool, header \in HeaderPool }

CellPool == {SeparatorCell, SmallSeparatorCell, EventCellA, NestedTableCell}

SevenSeparators == [i \in 1..7 |-> SeparatorCell]

\* The first and the last row of the documents below.
OuterRows ==
    { <<HeaderRow, <<>>>>,
      <<HeaderRow, SevenSeparators \o <<EventCellB>>>>,
      <<HeaderRow, <<EventCellB, NoClassCell, EventCellA>>>>,
      <<<<NoClassCell, EventCellB>>, <<SeparatorBlackCell, EventCellB>>>> }

\* Documents of one week block of three rows, the second over all cell
\* sequences of up to MaxCells cells.
RowDocuments ==
    { Document(Some(Title),
               <<Week(Some(NumberKW12), Some(HeaderDec29),
                      <<outer[1], cells, outer[2]>>)>>) :
        outer \in OuterRows, cells \in SeqsUpTo(CellPool, MaxCells) }

StartTokens ==
    { <<>>, <<"0", "0", ":", "3", "0">>, <<"0", "0", ":", "0", "0">>, <<"0", "7", ":", "3", "0">>, <<"0", ":", "0", "0">>,
      <<"0", "9", ":", "0", "0">>, <<"8", "h">> }

EndTokens ==
    { <<>>, <<"1", "7", ":", "0", "0">>, <<"0", "0", ":", "0", "0">>, <<"2", "5", ":", "0", "0">> }

\* Time-range segments: with the "&nbsp;-" marker, and without it.
TimeRanges ==
    { start \o Nbsp \o <<"-">> \o end : start \in StartTokens, end \in EndTokens }
        \cup StartTokens

DetailTails ==
    { <<>>, Br \o <<"M", "a", "t", "h">>, Br \o <<"A">> \o Amp \o <<"B">> \o Br \o <<"m", "o", "r", "e">> }

LinkPool ==
    { <<>>, <<DetailsBad, DetailsA>> }
        \cup { <<times \o tail>> : times \in TimeRanges, tail \in DetailTails }

ResourcePool == { <<"R", "o", "o", "m", " ", "A">>, <<"R", "o", "o", "m", " ", "B">>, <<"R">> \o Amp \o <<"D">> }

PersonPool == { <<"A", "d", "a">>, <<"B", "o", "b">> }

EventCells ==
    { EventCell(links) : links \in LinkPool }
        \cup { Cell(Some(week_block), <<DetailsA>>, resources, persons, <<>>) :
                 resources \in SeqsUpTo(ResourcePool, MaxSpans),
                 persons \in SeqsUpTo(PersonPool, MaxSpans) }

\* Documents of one week block with one event cell, over the cell's content.
EventDocuments ==
    { Document(Some(Title),
               <<Week(Some(NumberKW12), Some(HeaderDec29),
                      <<HeaderRow, <<SeparatorCell, cell>>>>)>>) :
        cell \in EventCells }

WeekInputs ==
    { [html |-> html, start_year |-> year] :
        html \in WeekDocuments, year \in StartYears }

HeaderInputs ==
    { [html |-> html, start_year |-> year] :
        html \in HeaderDocuments, year \in StartYears }

RowInputs == { [html |-> html, start_year |-> 2025] : html \in RowDocuments }

EventInputs == { [html |-> html, start_year |-> 2025] : html \in EventDocuments }

Inputs == WeekInputs \cup HeaderInputs \cup RowInputs \cup EventInputs

(***************************************************************************)
(* Actions.                                                                *)
(***************************************************************************)
InitOn(inputs) ==
    /\ input \in inputs
    /\ pc = "title"
    /\ start_year = input.start_year
    /\ name = <<>>
    /\ events = <<>>
    /\ idx = 0
    /\ monday = Date(1, 1, 1)
    /\ week_events = <<>>
    /\ row = 0
    /\ column = 0
    /\ day_index = 0
    /\ result = None
    /\ calls = <<>>
    /\ scanned = <<>>
    /\ response = None
    /\ CacheIdle
    /\ ResolverIdle

\* SelectTitle that names the calendar "" when there is no title.
SelectTitleOrEmpty(html) ==
    IF IsSome(html.title) THEN Ok(Trim(Unwrap(html.title))) ELSE Ok(<<>>)

\* select!(html, "title", next)?: the Calendar's name, or the failure.
SelectTitle(html) ==
    IF IsSome(html.title) THEN Ok(Trim(Unwrap(html.title))) ELSE SelectError("title")

\* parse_calendar up to its loop over the week blocks.
ParseTitle ==
    /\ pc = "title"
    /\ LET title == SelectTitle(input.html)
       IN  IF title.ok
           THEN /\ name' = title.val
                /\ pc' = "weeks"
                /\ result' = result
           ELSE /\ result' = Some(title)
                /\ pc' = "done"
                /\ name' = name
    /\ scanned' = Append(scanned, <<0, 0, 0>>)
    /\ UNCHANGED <<input, start_year, events, idx, monday, week_events, row,
                   column, day_index, calls>>
    /\ UNCHANGED <<response, cache_vars, resolver_vars>>

\* The year parse_week is called with for the week block at idx.
WeekYear(year, week_number, i) ==
    IF IsRollover(week_number, i) THEN year + 1 ELSE year

\* One pass of the loop over the week blocks, up to the row loop of
\* parse_week: the week number, the rollover, the call of parse_week and its
\* header.
EnterWeek ==
    /\ pc = "weeks"
    /\ idx < Len(input.html.weeks)
    /\ LET week_number == WeekNumber(CurrentWeek, idx + 1)
           year == WeekYear(start_year, week_number.val, idx)
           header == WeekMonday(CurrentWeek, year)
       IN  IF ~week_number.ok
           THEN /\ result' = Some(week_number)
                /\ pc' = "done"
                /\ UNCHANGED <<start_year, monday, week_events, row, calls>>
           ELSE /\ start_year' = year
                /\ calls' = Append(calls, [idx |-> idx, year |-> year])
                /\ IF ~header.ok
                   THEN /\ result' = Some(header)
                        /\ pc' = "done"
                        /\ UNCHANGED <<monday, week_events, row>>
                   ELSE /\ monday' = header.val
                        /\ week_events' = <<>>
                        /\ row' = 1
                        /\ pc' = "rows"
                        /\ result' = result
    /\ scanned' = Append(scanned, <<idx + 1, 0, 0>>)
    /\ UNCHANGED <<input, name, events, idx, column, day_index>>
    /\ UNCHANGED <<response, cache_vars, resolver_vars>>

\* events.push(..) that puts the event in front.
PushEventInFront(list, event) == event \o list

\* events.push(..) in parse_week; event is Some(event), or None for a cell
\* that yields no event.
PushEvent(list, event) == list \o event

\* The events of a finished week, appended to the accumulator.
AppendWeek(all, week) == all \o week

\* The row loop of parse_week: the next tr, or the return to parse_calendar.
NextRow ==
    /\ pc = "rows"
    /\ IF row < Len(CurrentRows)
       THEN /\ row' = row + 1
            /\ day_index' = 0
            /\ column' = 0
            /\ pc' = "columns"
            /\ UNCHANGED <<events, idx, week_events>>
       ELSE /\ events' = AppendWeek(events, week_events)
            /\ idx' = idx + 1
            /\ pc' = "weeks"
            /\ UNCHANGED <<row, day_index, column, week_events>>
    /\ UNCHANGED <<input, start_year, name, monday, result, calls, scanned>>
    /\ UNCHANGED <<response, cache_vars, resolver_vars>>

\* The cell loop of parse_week: the next td of the row, or the next row.
NextColumn ==
    /\ pc = "columns"
    /\ IF column < Len(CurrentColumns)
       THEN LET step == ColumnStep(CurrentColumns[column + 1], monday, day_index)
            IN  /\ column' = column + 1
                /\ day_index' = step.day_index
                /\ scanned' = Append(scanned, <<idx + 1, row, column + 1>>)
                /\ IF ~step.out.ok
                   THEN /\ result' = Some(step.out)
                        /\ pc' = "done"
                        /\ week_events' = week_events
                   ELSE /\ week_events' = PushEvent(week_events, step.out.val)
                        /\ pc' = pc
                        /\ result' = result
       ELSE /\ pc' = "rows"
            /\ UNCHANGED <<column, day_index, scanned, result, week_events>>
    /\ UNCHANGED <<input, start_year, name, events, idx, monday, row, calls>>
    /\ UNCHANGED <<response, cache_vars, resolver_vars>>

\* Ok(Calendar { name, events }) once the week blocks are exhausted.
ReturnCalendar ==
    /\ pc = "weeks"
    /\ idx = Len(input.html.weeks)
    /\ result' = Some(Ok([name |-> name, events |-> events]))
    /\ pc' = "done"
    /\ UNCHANGED <<input, start_year, name, events, idx, monday, week_events,
                   row, column, day_index, calls, scanned>>
    /\ UNCHANGED <<response, cache_vars, resolver_vars>>

(***************************************************************************)
(* The proxy handler (proxy.rs): what handle_calendar makes of the result  *)
(* of parse_calendar.                                                      *)
(***************************************************************************)
OK == 200
INTERNAL_SERVER_ERROR == 500
BAD_GATEWAY == 502

\* The statuses an upstream can answer with that are not a success.
UpstreamFailures == {404, 500, 503}

ProxyError(message, kind) == [message |-> message, kind |-> kind]

\* ProxyErrorKind: the variant and, for Status, the upstream's status code.
Reqwest == [tag |-> "Reqwest", status |-> 0]
Status(status) == [tag |-> "Status", status |-> status]
Parse(err) == [tag |-> "Parse", status |-> 0, source |-> err]

\* The status of ProxyError::into_response with parse failures blamed on the
\* upstream.
ErrorStatusBadGateway(kind) ==
    CASE kind.tag = "Reqwest" -> BAD_GATEWAY
      [] kind.tag = "Parse" -> BAD_GATEWAY
      [] kind.tag = "Status" -> kind.status

\* The status of ProxyError::into_response.
ErrorStatus(kind) ==
    CASE kind.tag = "Reqwest" -> BAD_GATEWAY
      [] kind.tag = "Parse" -> INTERNAL_SERVER_ERROR
      [] kind.tag = "Status" -> kind.status

\* ProxyError::into_response: the body is format!("Error: {self}"), and
\* Display writes the message.
ProxyErrorIntoResponse(error) ==
    [status |-> ErrorStatus(error.kind),
     content_type |-> "text/plain",
     text |-> <<"Error: ", error.message>>,
     calendar |-> None]

\* Calendar::into_response: the calendar as ICS.
CalendarIntoResponse(calendar) ==
    [status |-> OK,
     content_type |-> "text/calendar",
     text |-> <<>>,
     calendar |-> Some(calendar)]

\* The last expression of handle_calendar: parse_calendar(..).map_err(..).
MapErr(parsed) ==
    IF parsed.ok
    THEN [ok |-> TRUE, val |-> parsed.val]
    ELSE [ok |-> FALSE,
          val |-> ProxyError("Couldn't parse HTML returned by upstream",
                             Parse(parsed))]

\* impl IntoResponse for Result<Calendar, ProxyError>.
IntoResponse(handled) ==
    IF handled.ok
    THEN CalendarIntoResponse(handled.val)
    ELSE ProxyErrorIntoResponse(handled.val)

\* handle_calendar returns and its result becomes the response.
Respond ==
    /\ pc = "done"
    /\ IsSome(result)
    /\ response = None
    /\ response' = Some(IntoResponse(MapErr(Unwrap(result))))
    /\ UNCHANGED <<parser_vars, cache_vars, resolver_vars>>

Next ==
    \/ ParseTitle
    \/ EnterWeek
    \/ NextRow
    \/ NextColumn
    \/ ReturnCalendar
    \/ Respond

\* parse_calendar on every input of the model.
Init == InitOn(Inputs)
Spec == Init /\ [][Next]_vars

\* parse_calendar on the documents of several week blocks.
InitWeeks == InitOn(WeekInputs)
SpecWeeks == InitWeeks /\ [][Next]_vars

\* parse_calendar on the documents that vary the week number and header.
InitHeaders == InitOn(HeaderInputs)
SpecHeaders == InitHeaders /\ [][Next]_vars

\* parse_calendar on the documents that vary the rows and cells of a week.
InitRows == InitOn(RowInputs)
SpecRows == InitRows /\ [][Next]_vars

\* parse_calendar on the documents that vary the content of an event cell.
InitEvents == InitOn(EventInputs)
SpecEvents == InitEvents /\ [][Next]_vars

(***************************************************************************)
(* Properties.                                                             *)
(***************************************************************************)
Weeks == input.html.weeks

\* Whether the week block at one-based position j carries week number 1.
HasWeekNumberOne(j) == WeekNumber(Weeks[j], j) = Ok(1)

\* C1: the k-th call of parse_week is for the week block at zero-based
\* index k - 1, and its year is the start_year argument plus the number of
\* week blocks at zero-based indices 1..k-1 whose week number is 1; the
\* block at index 0 never counts.
C1_YearRollover ==
    \A k \in 1..Len(calls) :
        /\ calls[k].idx = k - 1
        /\ calls[k].year =
               input.start_year
                   + Cardinality({j \in 2..k : HasWeekNumberOne(j)})

\* Three week blocks, all with week number 1: the first leaves the year, the
\* second and the third advance it once each.
C1_Witness ==
    /\ Len(calls) = 3
    /\ \A j \in 1..3 : HasWeekNumberOne(j)
    /\ calls[1].year = input.start_year
    /\ calls[3].year = input.start_year + 2

(***************************************************************************)
(* The places of a document in scan order: <<0, 0, 0>> is the title,       *)
(* <<w, 0, 0>> the week number and header of week block w, <<w, r, c>> the *)
(* c-th td of its r-th tr (r >= 2: the first tr is skipped).               *)
(***************************************************************************)
TrsOf(w) == SelectTr(Weeks[w].rows)
TdsOf(w, r) == SelectTd(TrsOf(w)[r])

CellPlaces ==
    UNION { UNION { { <<w, r, c>> : c \in 1..Len(TdsOf(w, r)) } :
                    r \in 2..Len(TrsOf(w)) } :
            w \in 1..Len(Weeks) }

Places == {<<0, 0, 0>>} \cup { <<w, 0, 0>> : w \in 1..Len(Weeks) } \cup CellPlaces

Before(p, q) ==
    \/ p[1] < q[1]
    \/ p[1] = q[1] /\ p[2] < q[2]
    \/ p[1] = q[1] /\ p[2] = q[2] /\ p[3] < q[3]

\* The year of week block w by the rollover rule.
YearOf(w) ==
    input.start_year + Cardinality({j \in 2..w : HasWeekNumberOne(j)})

IsEventCell(cell) == cell.class = Some(week_block)

IsSeparator(cell) ==
    IsSome(cell.class) /\ StartsWith(Unwrap(cell.class), week_separatorcell)

\* The failure of a place taken alone, None when it has none.
FailureAt(p) ==
    IF p = <<0, 0, 0>>
    THEN (IF IsSome(input.html.title) THEN None ELSE Some(SelectError("title")))
    ELSE IF p[2] = 0
    THEN LET number == WeekNumber(Weeks[p[1]], p[1])
             header == WeekMonday(Weeks[p[1]], YearOf(p[1]))
         IN  IF ~number.ok THEN Some(number)
             ELSE IF ~header.ok THEN Some(header)
             ELSE None
    ELSE LET cell == TdsOf(p[1], p[2])[p[3]]
             details == parse_event_details(cell, Date(1, 1, 1))
         IN  IF ~IsSome(cell.class)
             THEN Some(HtmlError("expected element to have a class", ColumnHtml(cell)))
             ELSE IF IsEventCell(cell) /\ ~details.ok THEN Some(details)
             ELSE None

FailingPlaces == { p \in Places : IsSome(FailureAt(p)) }

\* C2: no place after a failing place is ever scanned; a finished parse
\* returns the failure of the first failing place in scan order, reached as
\* the last place scanned, and returns Ok only when no place fails.
C2_FirstFailureReturned ==
    LET failing == FailingPlaces
    IN  /\ \A k \in 1..Len(scanned) :
               \A f \in failing : ~Before(f, scanned[k])
        /\ pc = "done" =>
               /\ IsSome(result)
               /\ Unwrap(result).ok <=> failing = {}
               /\ \A f \in failing :
                      (\A g \in failing : g = f \/ Before(f, g)) =>
                          /\ result = FailureAt(f)
                          /\ scanned[Len(scanned)] = f

\* A parse that fails in the second of three week blocks, on the third cell
\* of a row, with events of the first week and of this row already gathered
\* and a row and a week block still ahead.
C2_Witness ==
    /\ pc = "done"
    /\ ~Unwrap(result).ok
    /\ Unwrap(result).kind = "Html"
    /\ events # <<>>
    /\ week_events # <<>>
    /\ scanned[Len(scanned)] = <<2, 2, 3>>
    /\ Len(TrsOf(2)) = 3
    /\ Len(Weeks) = 3

(***************************************************************************)
(* The events a document yields, place by place.                           *)
(***************************************************************************)
CellAt(p) == TdsOf(p[1], p[2])[p[3]]

\* The visits of event cells: a td with first class token week_block, met
\* among the td elements below a tr other than the first tr of its week.
EventVisits == { p \in CellPlaces : IsEventCell(CellAt(p)) }

\* The separator cells among the first c cells below row r of week w.
SeparatorsUpTo(w, r, c) ==
    Cardinality({ k \in 1..c : IsSeparator(TdsOf(w, r)[k]) })

MondayOf(w) == WeekMonday(Weeks[w], YearOf(w)).val

EventAt(p) ==
    parse_event_details(
        CellAt(p), AddDays(MondayOf(p[1]), SeparatorsUpTo(p[1], p[2], p[3]))).val

Returned == Unwrap(result).val

Succeeded == pc = "done" /\ Unwrap(result).ok

\* The event cells as elements: the td children of the tr elements of a week
\* block other than its first tr, each counted once.
EventCellElements ==
    UNION { UNION { { <<w, r, c>> : c \in { k \in 1..Len(TrsOf(w)[r]) :
                                              IsEventCell(TrsOf(w)[r][k]) } } :
                    r \in 2..Len(TrsOf(w)) } :
            w \in 1..Len(Weeks) }

\* C3 (as amended): on success the events are, in scan order (week block,
\* then tr, then td below that tr), one event per visit of an event cell;
\* none is dropped or reordered.  An event cell of a table nested in a row
\* is visited below the outer row and below its own row.
C3_EventsInScanOrder ==
    Succeeded =>
        LET visits == EventVisits
        IN  /\ Len(Returned.events) = Cardinality(visits)
            /\ \A p \in visits :
                   Returned.events[1 + Cardinality({ q \in visits : Before(q, p) })]
                       = EventAt(p)

\* C3 (as claimed): on success there is exactly one event per event cell.
C3_OneEventPerEventCell ==
    Succeeded => Len(Returned.events) = Cardinality(EventCellElements)

\* A successful parse that returns at least five events, two different ones
\* from the same row among them and one from the last row, and more events
\* than there are event cells: an event cell of a nested table was visited
\* twice.
C3_Witness ==
    /\ Succeeded
    /\ Len(Returned.events) >= 5
    /\ \E p \in EventVisits : \E q \in EventVisits :
           /\ p[2] = q[2]
           /\ Before(p, q)
           /\ EventAt(p) # EventAt(q)
    /\ Cardinality(EventCellElements) < Len(Returned.events)
    /\ \E p \in EventVisits : p[2] = 4

(***************************************************************************)
(* The cell the cell loop has just visited, and what its text holds.       *)
(***************************************************************************)
\* The cell loop has visited a cell and not moved on: it yielded an event
\* or nothing (pc = "columns"), or it ended the parse.
Visited ==
    /\ column > 0
    /\ \/ pc = "columns"
       \/ /\ pc = "done"
          /\ ~Unwrap(result).ok
          /\ scanned[Len(scanned)][3] > 0

VisitedCell == CurrentColumns[column]

VisitedEventCell ==
    Visited /\ IsEventCell(VisitedCell) /\ VisitedCell.links # <<>>

\* The cell just visited yielded an event: the last of week_events.
EventProduced == VisitedEventCell /\ pc = "columns"

ProducedEvent == week_events[Len(week_events)]

Marker == Nbsp \o <<"-">>

DetailsOf(cell) == cell.links[Len(cell.links)]

\* The time-range segment: the text before the first "<br>".
TimesRawOf(cell) ==
    LET details == DetailsOf(cell)
        brs == { i \in 1..Len(details) : MatchesAt(details, Br, i) }
    IN  IF brs = {} THEN details
        ELSE SubSeq(details, 1, (CHOOSE i \in brs : \A j \in brs : i <= j) - 1)

HasTitle(cell) == \E i \in 1..Len(DetailsOf(cell)) : MatchesAt(DetailsOf(cell), Br, i)

MarkerPositions(times_raw) ==
    { i \in 1..Len(times_raw) : MatchesAt(times_raw, Marker, i) }

HasMarker(times_raw) == MarkerPositions(times_raw) # {}

FirstMarker(times_raw) ==
    CHOOSE i \in MarkerPositions(times_raw) :
        \A j \in MarkerPositions(times_raw) : i <= j

\* The text before the first marker (all of it without a marker).
StartTokenOf(times_raw) ==
    IF HasMarker(times_raw)
    THEN SubSeq(times_raw, 1, FirstMarker(times_raw) - 1)
    ELSE times_raw

\* The text after the first marker; the inputs hold at most one marker.
EndTokenOf(times_raw) ==
    SubSeq(times_raw, FirstMarker(times_raw) + Len(Marker), Len(times_raw))

AtWeekHeader ==
    /\ Len(scanned) > 0
    /\ scanned[Len(scanned)] = <<idx + 1, 0, 0>>
    /\ WeekNumber(CurrentWeek, idx + 1).ok

HeaderMo2303 == <<"M", "o", " ", "2", "3", ".", "0", "3", ".">>
HeaderKW122303 == <<"K", "W", " ", "1", "2", " ", "2", "3", ".", "0", "3", ".">>

\* C5 (as amended): the header "Mo 23.03." gives the Monday 23 March of the
\* year supplied; the header "KW 12 23.03.", whose second token is "12",
\* ends the parse with a content failure carrying the header text.
C5_MondayFromSecondToken ==
    /\ (AtWeekHeader /\ CurrentWeek.header = Some(HeaderMo2303)) =>
           /\ pc # "done"
           /\ monday = Date(start_year, 3, 23)
    /\ (AtWeekHeader /\ CurrentWeek.header = Some(HeaderKW122303)) =>
           /\ pc = "done"
           /\ result = Some(HtmlError("expected day + month information in week header",
                                      HeaderKW122303))

\* C5 (as claimed): the header "KW 12 23.03." gives the Monday 23 March of
\* the year supplied.
C5_MondayFromKWHeader ==
    (AtWeekHeader /\ CurrentWeek.header = Some(HeaderKW122303)) =>
        /\ pc # "done"
        /\ monday = Date(start_year, 3, 23)

\* The header "Mo 23.03." was read in 2024: Monday is 23 March 2024.
C5_Witness ==
    /\ AtWeekHeader
    /\ CurrentWeek.header = Some(HeaderMo2303)
    /\ pc = "rows"
    /\ monday = Date(2024, 3, 23)

C7_MidnightStart ==
    EventProduced =>
        LET times_raw == TimesRawOf(VisitedCell)
            start == Unwrap(ParseTime(StartTokenOf(times_raw)))
            end_token == EndTokenOf(times_raw)
        IN  /\ ProducedEvent.start =
                   IF start = Time(0, 0) THEN Time(8, 0) ELSE start
            /\ end_token # <<>> => ProducedEvent.end = Unwrap(ParseTime(end_token))

\* The cell "00:00&nbsp;-00:00": start 08:00, end 00:00.
C7_Witness ==
    /\ EventProduced
    /\ TimesRawOf(VisitedCell) = <<"0", "0", ":", "0", "0">> \o Marker \o <<"0", "0", ":", "0", "0">>
    /\ ProducedEvent.start = Time(8, 0)
    /\ ProducedEvent.end = Time(0, 0)

\* C8: with the marker and an empty end token the event, when the start
\* token parses and a title follows, is produced with end 18:00; without
\* the marker the parse ends with a content failure carrying the time-range
\* text.
C8_FullDayEnd ==
    VisitedEventCell =>
        LET times_raw == TimesRawOf(VisitedCell)
        IN  /\ (HasMarker(times_raw) /\ EndTokenOf(times_raw) = <<>>) =>
                   /\ EventProduced => ProducedEvent.end = Time(18, 0)
                   /\ (IsSome(ParseTime(StartTokenOf(times_raw)))
                          /\ HasTitle(VisitedCell)) => EventProduced
            /\ ~HasMarker(times_raw) =>
                   /\ pc = "done"
                   /\ Unwrap(result).kind = "Html"
                   /\ Unwrap(result).html = times_raw

\* The cell "09:00&nbsp;-<br>Math": end 18:00.
C8_Witness ==
    /\ EventProduced
    /\ DetailsOf(VisitedCell) = <<"0", "9", ":", "0", "0">> \o Marker \o Br \o <<"M", "a", "t", "h">>
    /\ ProducedEvent.start = Time(9, 0)
    /\ ProducedEvent.end = Time(18, 0)

Decoded(spans, i) == decode_html_entities(spans[i])

\* The texts i..n of the spans joined with ", " (n >= i).
RECURSIVE JoinedFrom(_, _)
JoinedFrom(spans, i) ==
    IF i = Len(spans) THEN Decoded(spans, i)
    ELSE Decoded(spans, i) \o <<",", " ">> \o JoinedFrom(spans, i + 1)

\* C9: location is the last resource span and description all resource
\* spans joined with ", " in document order, both absent without a resource
\* span; organizer is the person spans joined with ", ", absent without a
\* person span.
C9_ResourcesAndPersons ==
    EventProduced =>
        LET resources == VisitedCell.resources
            persons == VisitedCell.persons
        IN  /\ ProducedEvent.location =
                   IF resources = <<>> THEN None
                   ELSE Some(Decoded(resources, Len(resources)))
            /\ ProducedEvent.description =
                   IF resources = <<>> THEN None
                   ELSE Some(JoinedFrom(resources, 1))
            /\ ProducedEvent.organizer =
                   IF persons = <<>> THEN None
                   ELSE Some(JoinedFrom(persons, 1))

\* The resource spans "Room A" and "Room B" and no person span.
C9_Witness ==
    /\ EventProduced
    /\ VisitedCell.resources = <<<<"R", "o", "o", "m", " ", "A">>, <<"R", "o", "o", "m", " ", "B">>>>
    /\ ProducedEvent.location = Some(<<"R", "o", "o", "m", " ", "B">>)
    /\ ProducedEvent.description = Some(<<"R", "o", "o", "m", " ", "A", ",", " ", "R", "o", "o", "m", " ", "B">>)
    /\ ProducedEvent.organizer = None

\* C10: without a title element the parse ends at the title with the
\* selection failure for "title"; no week block is scanned and parse_week
\* is not called.
C10_MissingTitle ==
    (~IsSome(input.html.title) /\ pc # "title") =>
        /\ pc = "done"
        /\ result = Some(SelectError("title"))
        /\ scanned = << <<0, 0, 0>> >>
        /\ calls = <<>>

\* A document without a title whose second week block is malformed.
C10_Witness ==
    /\ ~IsSome(input.html.title)
    /\ pc = "done"
    /\ Len(Weeks) >= 2
    /\ IsSome(FailureAt(<<2, 0, 0>>))
    /\ Unwrap(result).kind = "Select"

(***************************************************************************)
(* The cache middleware (cache.rs).  The cache is quick_cache's: a lookup  *)
(* of an absent key hands out a placeholder guard, later lookups of that   *)
(* key wait for the guard's holder, and an entry is evicted when the       *)
(* weights exceed the capacity.                                            *)
(***************************************************************************)
MaxRequests == 3
MaxTime == 4

\* Config.ttl, in ticks of the clock.
Ttl == 2

\* The request URIs, used as keys.  The middleware treats every key alike and
\* couples two keys only through the capacity, which Evict stands for.
Keys == {"/a"}

\* The values of Config.max_size: caching off, caching on.
MaxSizes == {0, 1}

RequestIds == 1 .. MaxRequests

EmptySlot == [state |-> "empty", owner |-> 0, timestamp |-> 0]
Placeholder(r) == [state |-> "placeholder", owner |-> r, timestamp |-> 0]

\* decompose_response: the response with the time it was taken.
decompose_response(r, time) == [state |-> "resident", owner |-> r, timestamp |-> time]

\* What is remembered of a key: the last call that changed its entry ("none",
\* "insert", "evict" or "remove"), the time of the last insert, whether an
\* entry was ever evicted, and the runs of the inner handler since the last
\* eviction or remove call.
NoHistory == [last |-> "none", inserted |-> 0, evicted |-> FALSE, runs |-> 0]

NewRequest == [pc |-> "new", key |-> "", on |-> 0, forwarded |-> FALSE,
               header |-> None, at |-> 0, seen |-> NoHistory]
NoTask == [state |-> "none", key |-> "", timestamp |-> 0, spawned |-> 0,
           removed |-> EmptySlot]

\* The inner handler runs once more for key k.
Ran(k) == [history EXCEPT ![k].runs = @ + 1]

\* The entry of key k was put in, or taken out by the event.
Inserted(k, time) == [history EXCEPT ![k].last = "insert", ![k].inserted = time]
TakenOut(k, event) ==
    [history EXCEPT ![k].last = event, ![k].runs = 0,
                    ![k].evicted = @ \/ event = "evict"]

\* The parser and the proxy handler at rest.
ParserIdle ==
    /\ input = <<>>
    /\ pc = "done"
    /\ start_year = 0
    /\ name = <<>>
    /\ events = <<>>
    /\ idx = 0
    /\ monday = Date(1, 1, 1)
    /\ week_events = <<>>
    /\ row = 0
    /\ column = 0
    /\ day_index = 0
    /\ result = None
    /\ calls = <<>>
    /\ scanned = <<>>
    /\ response = None

\* The state after apply_middleware, for each configuration.
InitCache ==
    /\ max_size \in MaxSizes
    /\ now = 0
    /\ cache = [k \in Keys |-> EmptySlot]
    /\ requests = [r \in RequestIds |-> NewRequest]
    /\ tasks = [r \in RequestIds |-> NoTask]
    /\ history = [k \in Keys |-> NoHistory]
    /\ ParserIdle
    /\ ResolverIdle

\* The requests waiting for the guard that request r holds.
Waiters(r) == { q \in RequestIds : requests[q].pc = "waiting" /\ requests[q].on = r }

\* CachedResponse::into_response without the x-cache-age header.
CacheAgeAbsent(entry, time) == None

\* CachedResponse::into_response: the x-cache-age header, in ticks.
CacheAge(entry, time) == Some(time - entry.timestamp)

\* A request answered from the cache.
Answered(request, entry, time) ==
    [request EXCEPT !.pc = "done", !.header = CacheAge(entry, time)]

\* A request whose inner handler is running: next.run(request).  A request
\* that took the guard over keeps in "on" whom it had waited for.
Forwarded(request, k) ==
    [request EXCEPT !.pc = "running", !.key = k, !.forwarded = TRUE]

\* cache_middleware up to next.run: the lookup of the key.
Request(r, k) ==
    /\ requests[r].pc = "new"
    /\ \A q \in RequestIds : q < r => requests[q].pc # "new"
    /\ LET arrived == [requests[r] EXCEPT !.key = k, !.at = now,
                                            !.seen = history[k]]
       IN  CASE cache[k].state = "resident" ->
                  /\ requests' = [requests EXCEPT
                         ![r] = Answered(arrived, cache[k], now)]
                  /\ UNCHANGED <<cache, history>>
             [] cache[k].state = "placeholder" ->
                  /\ requests' = [requests EXCEPT
                         ![r] = [arrived EXCEPT !.pc = "waiting",
                                                !.on = cache[k].owner]]
                  /\ UNCHANGED <<cache, history>>
             [] cache[k].state = "empty" ->
                  /\ requests' = [requests EXCEPT ![r] = Forwarded(arrived, k)]
                  /\ history' = Ran(k)
                  /\ cache' = [cache EXCEPT ![k] = Placeholder(r)]
    /\ UNCHANGED <<max_size, now, tasks>>
    /\ UNCHANGED <<parser_vars, response, resolver_vars>>

\* The early return left out: every response is cached.
CachingNeverDisabled(size) == FALSE

\* if state.config.max_size == 0: the response is returned uncached.
CachingDisabled(size) == size = 0

\* Whether request r still owns the placeholder of key k in the cache.
HoldsPlaceholder(r, k) == cache[k] = Placeholder(r)

\* Dropping an unused guard: the placeholder goes back to the cache, or to
\* the waiter w who takes the guard over.
ReleaseGuard(r, k, w) ==
    IF HoldsPlaceholder(r, k)
    THEN [cache EXCEPT ![k] = IF w = 0 THEN EmptySlot ELSE Placeholder(w)]
    ELSE cache

\* The early return of cache_middleware: the response goes out as it is and
\* the guard is dropped; a waiter, if there is one, becomes the holder and
\* runs the inner handler itself.
ReturnUncached(r, k) ==
    /\ tasks' = tasks
    /\ IF Waiters(r) = {}
       THEN /\ requests' = [requests EXCEPT ![r].pc = "done"]
            /\ cache' = ReleaseGuard(r, k, 0)
            /\ history' = history
       ELSE \E w \in Waiters(r) :
            /\ requests' = [q \in RequestIds |->
                   IF q = r THEN [requests[q] EXCEPT !.pc = "done"]
                   ELSE IF q = w THEN Forwarded(requests[q], k)
                   ELSE IF q \in Waiters(r) THEN [requests[q] EXCEPT !.on = w]
                   ELSE requests[q]]
            /\ cache' = ReleaseGuard(r, k, w)
            /\ history' = Ran(k)

\* The expiry task spawned after the insert.
SpawnedTask(k, entry, time) ==
    [state |-> "sleeping", key |-> k, timestamp |-> entry.timestamp,
     spawned |-> time, removed |-> EmptySlot]

\* placeholder.insert(..).unwrap() and task::spawn(..): the value goes to the
\* waiters; the insert fails, and the unwrap panics, when the placeholder is
\* no longer in the cache.
InsertAndSpawn(r, k) ==
    LET entry == decompose_response(r, now)
        inserted == HoldsPlaceholder(r, k)
    IN  /\ requests' = [q \in RequestIds |->
               IF q = r
               THEN [requests[q] EXCEPT !.pc = IF inserted THEN "done" ELSE "panicked"]
               ELSE IF q \in Waiters(r) THEN Answered(requests[q], entry, now)
               ELSE requests[q]]
        /\ cache' = IF inserted THEN [cache EXCEPT ![k] = entry] ELSE cache
        /\ tasks' = IF inserted
                    THEN [tasks EXCEPT ![r] = SpawnedTask(k, entry, now)]
                    ELSE tasks
        /\ history' = IF inserted THEN Inserted(k, now) ELSE history

\* cache_middleware from the return of next.run to its end.
Return(r) ==
    /\ requests[r].pc = "running"
    /\ IF CachingDisabled(max_size)
       THEN ReturnUncached(r, requests[r].key)
       ELSE InsertAndSpawn(r, requests[r].key)
    /\ UNCHANGED <<max_size, now>>
    /\ UNCHANGED <<parser_vars, response, resolver_vars>>

\* The cache evicts a resident entry because the weights of the entries,
\* those of other URIs included, exceed its capacity.
Evict(k) ==
    /\ cache[k].state = "resident"
    /\ cache' = [cache EXCEPT ![k] = EmptySlot]
    /\ history' = TakenOut(k, "evict")
    /\ UNCHANGED <<max_size, now, requests, tasks>>
    /\ UNCHANGED <<parser_vars, response, resolver_vars>>

\* time::sleep(ttl) is over.
Elapsed(since, time) == since + Ttl <= time

\* The test of the expiry task: decomposed.timestamp + ttl <= now.
IsExpired(timestamp, time) == timestamp + Ttl <= time

\* cache.remove(&key): whatever the key holds, a placeholder included, goes.
Remove(k) == [cache EXCEPT ![k] = EmptySlot]

\* The expiry task of request r wakes up.
Expire(r) ==
    /\ tasks[r].state = "sleeping"
    /\ Elapsed(tasks[r].spawned, now)
    /\ IF IsExpired(tasks[r].timestamp, now)
       THEN /\ cache' = Remove(tasks[r].key)
            /\ tasks' = [tasks EXCEPT ![r].state = "done",
                                      ![r].removed = cache[tasks[r].key]]
            /\ history' = TakenOut(tasks[r].key, "remove")
       ELSE /\ tasks' = [tasks EXCEPT ![r].state = "done"]
            /\ UNCHANGED <<cache, history>>
    /\ UNCHANGED <<max_size, now, requests>>
    /\ UNCHANGED <<parser_vars, response, resolver_vars>>

\* Time passes.
Tick ==
    /\ now < MaxTime
    /\ now' = now + 1
    /\ UNCHANGED <<max_size, cache, requests, tasks, history>>
    /\ UNCHANGED <<parser_vars, response, resolver_vars>>

NextCache ==
    \/ \E r \in RequestIds, k \in Keys : Request(r, k)
    \/ \E r \in RequestIds : Return(r)
    \/ \E k \in Keys : Evict(k)
    \/ \E r \in RequestIds : Expire(r)
    \/ Tick

\* The cache middleware under every interleaving of requests, evictions,
\* expiry tasks and the clock.
SpecCache == InitCache /\ [][NextCache]_vars

(***************************************************************************)
(* Properties of the cache middleware.                                     *)
(***************************************************************************)
Arrived == { r \in RequestIds : requests[r].pc # "new" }

\* The response of a request that went to the inner handler: no x-cache-age.
WasForwarded(q) == q.forwarded /\ q.header = None

\* The response of a request answered from the cache: x-cache-age says how
\* long ago the entry was taken, and the inner handler was not called.
WasCached(q) ==
    /\ q.pc = "done"
    /\ ~q.forwarded
    /\ IsSome(q.header)

\* A request that arrived when no entry of its key had been evicted so far.
Unevicted(q) == ~q.seen.evicted

\* C11: with caching on and no entry of the URI evicted for size, the first
\* request for the URI is forwarded to the inner handler and carries no
\* x-cache-age; a request that arrives after an insert and before the TTL has
\* elapsed since that insert is answered from the cache, with x-cache-age and
\* without the inner handler; and the first request after the expiry task has
\* removed the entry is forwarded again and carries no x-cache-age.
C11_HitMissSequence ==
    ~CachingDisabled(max_size) =>
        \A r \in Arrived :
            LET q == requests[r]
            IN  Unevicted(q) =>
                /\ (q.seen.last = "none" /\ q.seen.runs = 0) => WasForwarded(q)
                /\ (q.seen.last # "none" /\ q.at < q.seen.inserted + Ttl)
                       => WasCached(q) /\ q.header = Some(q.at - q.seen.inserted)
                /\ (q.seen.last = "remove" /\ q.seen.runs = 0) => WasForwarded(q)

\* C11 witness: the run of test_cache_middleware, a miss, a hit within the TTL
\* and, after the expiry task has removed the entry, a miss again.
C11_Witness ==
    /\ ~CachingDisabled(max_size)
    /\ \A r \in RequestIds : requests[r].pc = "done" /\ Unevicted(requests[r])
    /\ requests[1].seen.last = "none" /\ WasForwarded(requests[1])
    /\ requests[2].seen.last = "insert" /\ WasCached(requests[2])
    /\ requests[2].at < requests[2].seen.inserted + Ttl
    /\ requests[3].seen.last = "remove" /\ WasForwarded(requests[3])

\* C12: with max_size = 0 nothing is cached.  Whatever requests were made,
\* concurrent ones for one URI included, the cache holds no entry, no expiry
\* task was spawned, no response carries x-cache-age, and every request that
\* is not still waiting for a guard went to the inner handler.
C12_NothingCachedAtZero ==
    max_size = 0 =>
        /\ \A k \in Keys : cache[k].state # "resident"
        /\ \A r \in RequestIds : tasks[r].state = "none"
        /\ \A r \in Arrived :
               /\ requests[r].header = None
               /\ requests[r].pc # "waiting" => requests[r].forwarded
               /\ requests[r].pc \in {"waiting", "running", "done"}

\* C12 witness: two requests for one URI overlapped, the second waited for
\* the first one's guard, took it over, ran the inner handler and finished.
C12_Witness ==
    /\ max_size = 0
    /\ requests[1].pc = "done" /\ requests[1].forwarded
    /\ requests[2].pc = "done" /\ requests[2].forwarded
    /\ requests[2].key = requests[1].key /\ requests[2].on = 1

(***************************************************************************)
(* Properties of the proxy handler.                                        *)
(***************************************************************************)
\* parse_calendar returned a ParseError and the handler has answered.
ParseFailureAnswered == IsSome(response) /\ IsSome(result) /\ ~Unwrap(result).ok

\* C13: every ParseError of parse_calendar comes out of the proxy handler as
\* a 500 response whose body is the text/plain error message; the status is
\* neither 2xx nor 4xx and the body holds no calendar, not even a partial one.
C13_ParseErrorIs500 ==
    ParseFailureAnswered =>
        LET answer == Unwrap(response)
        IN  /\ answer.status = 500
            /\ answer.status \notin 200 .. 299
            /\ answer.status \notin 400 .. 499
            /\ answer.content_type = "text/plain"
            /\ answer.text = <<"Error: ", "Couldn't parse HTML returned by upstream">>
            /\ answer.calendar = None

\* C13 witness: an event cell failed to parse after an earlier event had been
\* collected, and the handler answered.
C13_Witness ==
    /\ ParseFailureAnswered
    /\ Unwrap(result).kind = "Html"
    /\ week_events # <<>>
    /\ Unwrap(response).status = 500

\* The expiry tasks that have run, and what each took out of the cache.
Expired == { r \in RequestIds : tasks[r].state = "done" }

\* C14: the expiry task a request spawned removes only the entry that request
\* inserted; when that entry was evicted and a later request has put a newer
\* entry under the key, the older task does not remove the newer entry.
C14_ExpiryRemovesOwnEntry ==
    \A r \in Expired :
        tasks[r].removed.state = "resident" => tasks[r].removed.owner = r

\* C14 failing run: the first request's entry was evicted, the second request
\* inserted a newer one, and the first request's expiry task removed it before
\* its own TTL had elapsed.
C14_StaleTaskRemovedNewerEntry ==
    /\ tasks[1].state = "done"
    /\ tasks[1].removed.state = "resident"
    /\ tasks[1].removed.owner = 2
    /\ now < tasks[1].removed.timestamp + Ttl
    /\ history[tasks[1].key].evicted

\* The requests whose inner handler is running under a placeholder guard.
Running == { r \in RequestIds : requests[r].pc = "running" }

\* C15: placeholder.insert never returns Err and its unwrap never panics:
\* from the moment a request obtains the guard of a key until it inserts its
\* response, its placeholder stays in the cache, because no remove call and
\* no other insert for the key happens in between.
C15_InsertNeverFails ==
    /\ \A r \in RequestIds : requests[r].pc # "panicked"
    /\ \A r \in Running : HoldsPlaceholder(r, requests[r].key)

\* C15 failing run: the expiry task of an evicted entry removed the
\* placeholder of the request that was refilling the key, and that request's
\* insert failed.
C15_UnwrapPanicked ==
    /\ requests[2].pc = "panicked"
    /\ tasks[1].state = "done"
    /\ tasks[1].removed = Placeholder(2)

\* The requests that hold a guard of key k and run the inner handler.
InFlight(k) == { r \in Running : requests[r].key = k }

\* The finished requests that had waited for another request's guard.
Waited == { r \in RequestIds : requests[r].pc = "done" /\ requests[r].on # 0 }

\* C16: single flight per key with caching on.  At most one request at a time
\* holds the guard of a key and runs the inner handler; a request that arrived
\* meanwhile is answered with the inserted response; and between two removals
\* of the key the inner handler runs at most once for it.
C16_SingleFlight ==
    max_size > 0 =>
        /\ \A k \in Keys : Cardinality(InFlight(k)) <= 1
        /\ \A r \in Waited : WasCached(requests[r])
        /\ \A k \in Keys : history[k].runs <= 1

\* C16 failing run: the expiry task of an evicted entry removed the
\* placeholder of request 2, so request 3 found the key empty and ran the
\* inner handler while request 2 was still running it.
C16_TwoInFlight ==
    /\ max_size > 0
    /\ {2, 3} \subseteq Running
    /\ requests[2].key = requests[3].key
    /\ tasks[1].removed = Placeholder(2)

(***************************************************************************)
(* The resolver middleware (resolver.rs).  A URI is a sequence of tokens:  *)
(* the separators "/", "?" and "@", a scheme with its "://", a port with   *)
(* its ":", a word, or a query pair name=value whose value is a sequence   *)
(* of tokens again, since serde_urlencoded decodes any text into it.       *)
(***************************************************************************)
Tok(c, s, v) == [c |-> c, s |-> s, v |-> v]
Slash == Tok("/", "", <<>>)
Question == Tok("?", "", <<>>)
At == Tok("@", "", <<>>)
Scheme(s) == Tok("scheme", s, <<>>)
Port(s) == Tok("port", s, <<>>)
Word(s) == Tok("word", s, <<>>)
Number(n) == Tok("number", "", <<n>>)
Pair(n, v) == Tok("pair", n, v)

DEFAULT_HOST == "rapla.dhbw.de"
HOST_ALLOWLIST == {DEFAULT_HOST}

\* The index of the first token of one of the classes, or Len + 1.
FirstOf(tokens, classes) ==
    LET hits == { i \in 1 .. Len(tokens) : tokens[i].c \in classes }
    IN  IF hits = {} THEN Len(tokens) + 1
        ELSE CHOOSE i \in hits : \A j \in hits : i <= j

\* The index of the last "@" of an authority, or 0.
LastAt(authority) ==
    LET hits == { i \in 1 .. Len(authority) : authority[i].c = "@" }
    IN  IF hits = {} THEN 0
        ELSE CHOOSE i \in hits : \A j \in hits : j <= i

\* An authority is [userinfo@]host[:port].
IsAuthority(tokens) ==
    /\ tokens # <<>>
    /\ \A i \in 1 .. Len(tokens) : tokens[i].c \in {"word", "@", "port"}
    /\ LastAt(tokens) < Len(tokens)
    /\ tokens[LastAt(tokens) + 1].c = "word"

\* Uri::host(): the authority without userinfo and port.
HostOf(authority) == authority[LastAt(authority) + 1].s

\* The path and the query of what follows the authority.
PathOf(tokens) == SubSeq(tokens, 1, FirstOf(tokens, {"?"}) - 1)
QueryOf(tokens) ==
    IF FirstOf(tokens, {"?"}) <= Len(tokens)
    THEN Some(SubSeq(tokens, FirstOf(tokens, {"?"}) + 1, Len(tokens)))
    ELSE None

Uri(host, path, query) == [host |-> host, path |-> path, query |-> query]

\* Uri::from_str: origin form, absolute form or a lone authority; anything
\* else, a relative path such as rapla/calendar included, is an error.
FromStr(tokens) ==
    IF tokens = <<>> THEN None
    ELSE IF tokens[1].c = "/"
    THEN Some(Uri(None, PathOf(tokens), QueryOf(tokens)))
    ELSE IF tokens[1].c = "scheme"
    THEN LET rest == Tail(tokens)
             end == FirstOf(rest, {"/", "?"})
             authority == SubSeq(rest, 1, end - 1)
             after == SubSeq(rest, end, Len(rest))
         IN  IF IsAuthority(authority)
             THEN Some(Uri(Some(HostOf(authority)), PathOf(after), QueryOf(after)))
             ELSE None
    ELSE IF IsAuthority(tokens)
    THEN Some(Uri(Some(HostOf(tokens)), <<>>, None))
    ELSE None

\* Uri::path_and_query(), as the text it was parsed from.
PathAndQuery(uri) ==
    uri.path \o (IF IsSome(uri.query) THEN <<Question>> \o Unwrap(uri.query) ELSE <<>>)

\* trim_start_matches('/') and trim_end_matches('/').
TrimStartSlashes(tokens) ==
    SubSeq(tokens, FirstOf(tokens, {"scheme", "word", "@", "port", "?", "pair", "number"}),
           Len(tokens))
TrimEndSlashes(tokens) ==
    LET keep == { i \in 1 .. Len(tokens) : tokens[i].c # "/" }
    IN  IF keep = {} THEN <<>>
        ELSE SubSeq(tokens, 1, CHOOSE i \in keep : \A j \in keep : j <= i)

\* The value of the query pair with the given key, if there is one.
Field(query, key) ==
    LET hits == { i \in 1 .. Len(query) : query[i].c = "pair" /\ query[i].s = key }
    IN  IF hits = {} THEN None
        ELSE Some(query[CHOOSE i \in hits : \A j \in hits : i <= j].v)

\* RaplaBaseQuery, untagged: V1 { key, salt } is tried before V2 { user, file }.
BaseQuery(query) ==
    IF IsSome(Field(query, "key")) /\ IsSome(Field(query, "salt"))
    THEN Some(<<Pair("key", Unwrap(Field(query, "key"))),
                Pair("salt", Unwrap(Field(query, "salt")))>>)
    ELSE IF IsSome(Field(query, "user")) /\ IsSome(Field(query, "file"))
    THEN Some(<<Pair("user", Unwrap(Field(query, "user"))),
                Pair("file", Unwrap(Field(query, "file")))>>)
    ELSE None

\* serde_urlencoded::from_str into RaplaQueryWithPage.
Deserialize(query) ==
    IF IsSome(BaseQuery(query))
    THEN Some([base |-> Unwrap(BaseQuery(query)),
               page |-> Field(query, "page"),
               cutoff_date |-> Field(query, "cutoff_date")])
    ELSE None

RaplaPrefix == <<Slash, Word("rapla"), Slash>>

HasRaplaPrefix(path) == Len(path) >= 3 /\ SubSeq(path, 1, 3) = RaplaPrefix

\* path.trim_start_matches("/rapla/"): every leading repetition goes.
RECURSIVE TrimRaplaPrefix(_)
TrimRaplaPrefix(path) ==
    IF HasRaplaPrefix(path) THEN TrimRaplaPrefix(SubSeq(path, 4, Len(path))) ELSE path

\* The page named by the path, for a path that starts with /rapla/.
PageOfPath(path) ==
    IF HasRaplaPrefix(path) THEN Some(TrimEndSlashes(TrimRaplaPrefix(path))) ELSE None

UpstreamUrlComponents(host, page, query, cutoff_date) ==
    [host |-> host, page |-> page, query |-> query, cutoff_date |-> cutoff_date]

\* The host test of from_simple_uri left out.
AllowsAnyHost(host) == TRUE

\* HOST_ALLOWLIST.contains(&host)
Allows(host) == host \in HOST_ALLOWLIST

from_simple_uri(uri) ==
    LET host == IF IsSome(uri.host) THEN Unwrap(uri.host) ELSE DEFAULT_HOST
        query == IF IsSome(uri.query) THEN Deserialize(Unwrap(uri.query)) ELSE None
        page == IF IsSome(query) /\ IsSome(Unwrap(query).page)
                THEN Unwrap(query).page
                ELSE PageOfPath(uri.path)
    IN  IF ~Allows(host) THEN None
        ELSE IF ~IsSome(query) THEN None
        ELSE IF ~IsSome(page) THEN None
        ELSE Some(UpstreamUrlComponents(host, Unwrap(page), Unwrap(query).base,
                                        Unwrap(query).cutoff_date))

\* and_then on an Option.
AndThenSimple(uri) == IF IsSome(uri) THEN from_simple_uri(Unwrap(uri)) ELSE None

\* The URI in the request path first, the request URI itself second.
from_request_uri(uri) ==
    LET uri_in_path == FromStr(TrimStartSlashes(PathAndQuery(uri)))
    IN  IF IsSome(AndThenSimple(uri_in_path))
        THEN AndThenSimple(uri_in_path)
        ELSE from_simple_uri(uri)

\* Utc::now() minus DAYS_ONE_YEAR, for the day the model runs on.
YearAgo == Date(2025, 11, 6)

\* NaiveDate::parse_from_str(.., "%Y-%m-%d") on the cutoff dates of the model.
ParseCutoff(value) ==
    IF value = <<Word("2024-10-01")>> THEN Some(Date(2024, 10, 1)) ELSE None

WEEKS_TWO_YEARS == 104

\* generate_url: https://{host}/rapla/{page}?day=..&month=..&year=..&pages=104&{query}
generate_url(c) ==
    LET given == IF IsSome(c.cutoff_date) THEN ParseCutoff(Unwrap(c.cutoff_date)) ELSE None
        cutoff == IF IsSome(given) THEN Unwrap(given) ELSE YearAgo
    IN  [url |-> <<Scheme("https"), Word(c.host)>> \o RaplaPrefix \o c.page
                 \o <<Question,
                      Pair("day", <<Number(cutoff.day)>>),
                      Pair("month", <<Number(cutoff.month)>>),
                      Pair("year", <<Number(cutoff.year)>>),
                      Pair("pages", <<Number(WEEKS_TWO_YEARS)>>)>>
                 \o c.query,
         start_year |-> cutoff.year]

BAD_REQUEST == 400

\* if components.page == "ical" { components.page = "calendar" }
RewritePage(c) ==
    IF c.page = <<Word("ical")>> THEN [c EXCEPT !.page = <<Word("calendar")>>] ELSE c

\* Request targets: in origin or absolute form, with or without a URL
\* embedded in the path, over a few paths and queries.
Authorities ==
    { <<Word(DEFAULT_HOST)>>,
      <<Word("evil.example")>>,
      <<Word("RAPLA.DHBW.DE")>>,
      <<Word(DEFAULT_HOST), Port("8443")>>,
      <<Word(DEFAULT_HOST), At, Word("evil.example")>>,
      <<Word("evil.example"), At, Word(DEFAULT_HOST)>> }

Origins == { <<>>, <<Scheme("http"), Word("proxy.example")>> }

Embedded == { <<>> } \cup { <<Slash, Scheme("https")>> \o a : a \in Authorities }

Paths ==
    { <<Slash, Word("rapla"), Slash, Word("calendar")>>,
      <<Slash, Word("rapla"), Slash, Word("ical"), Slash>>,
      <<Slash, Word("other")>> }

V1 == <<Pair("key", <<Word("k")>>), Pair("salt", <<Word("s")>>)>>
V2 == <<Pair("user", <<Word("u")>>), Pair("file", <<Word("f")>>)>>

Queries ==
    { <<>>,
      <<Question>> \o V1,
      <<Question>> \o V2,
      <<Question, Pair("key", <<Word("k")>>)>>,
      <<Question>> \o V1 \o <<Pair("page", <<Word("ical")>>)>>,
      <<Question>> \o V2 \o <<Pair("page", <<At, Word("evil.example"), Slash>>)>>,
      <<Question>> \o V1 \o <<Pair("cutoff_date", <<Word("2024-10-01")>>)>> }

Targets == { o \o e \o p \o q : o \in Origins, e \in Embedded, p \in Paths, q \in Queries }

InitResolver ==
    /\ request_uri \in Targets
    /\ outcome = None
    /\ ParserIdle
    /\ CacheIdle

\* What resolver_middleware has done so far.
Outcome(step, components, status, extension) ==
    [step |-> step, components |-> components, status |-> status,
     extension |-> extension]

\* resolver_middleware calls from_request_uri on request.uri().
Resolve ==
    /\ request_uri # <<>>
    /\ outcome = None
    /\ outcome' = Some(Outcome("resolved",
                               from_request_uri(Unwrap(FromStr(request_uri))), 0, None))
    /\ UNCHANGED <<request_uri, parser_vars, response, cache_vars>>

\* No components: the middleware answers 400 and next.run is never reached.
Reject ==
    /\ IsSome(outcome)
    /\ Unwrap(outcome).step = "resolved"
    /\ ~IsSome(Unwrap(outcome).components)
    /\ outcome' = Some([Unwrap(outcome) EXCEPT !.step = "rejected",
                                               !.status = BAD_REQUEST])
    /\ UNCHANGED <<request_uri, parser_vars, response, cache_vars>>

\* Components: the page is rewritten, the generated URL goes into the
\* request's extensions and the inner handler runs.
Forward ==
    /\ IsSome(outcome)
    /\ Unwrap(outcome).step = "resolved"
    /\ IsSome(Unwrap(outcome).components)
    /\ outcome' = Some([Unwrap(outcome) EXCEPT
           !.step = "forwarded",
           !.extension = Some(generate_url(RewritePage(
                                  Unwrap(Unwrap(outcome).components))))])
    /\ UNCHANGED <<request_uri, parser_vars, response, cache_vars>>

NextResolver == Resolve \/ Reject \/ Forward

\* resolver_middleware on every request target of the model.
SpecResolver == InitResolver /\ [][NextResolver]_vars

(***************************************************************************)
(* Properties of the resolver.                                             *)
(***************************************************************************)
\* The host a client connects to for a URL.
UrlHost(url) == Unwrap(Unwrap(FromStr(url)).host)

\* The URI embedded in the path of the request, if it parses as one.
UriInPath == FromStr(TrimStartSlashes(request_uri))

\* C17: for every request URI, either from_request_uri returns None, the
\* middleware answers 400 and the inner handler is not run, or the inner
\* handler runs with a generated URL whose host is on HOST_ALLOWLIST; also
\* when the URL embedded in the path names another host and the resolver
\* falls back to the request URI itself.
C17_HostAllowListed ==
    IsSome(outcome) =>
        LET o == Unwrap(outcome)
        IN  /\ o.step = "rejected" =>
                /\ ~IsSome(o.components)
                /\ o.status = 400
                /\ ~IsSome(o.extension)
            /\ o.step = "forwarded" =>
                /\ IsSome(o.components)
                /\ IsSome(o.extension)
                /\ UrlHost(Unwrap(o.extension).url) \in {"rapla.dhbw.de"}

\* C17 witness: the URL in the path names a host that is not allowed, the
\* resolver fell back to the request URI, and the inner handler ran with a
\* URL on the default host.
C17_Witness ==
    /\ IsSome(outcome)
    /\ Unwrap(outcome).step = "forwarded"
    /\ IsSome(UriInPath)
    /\ Unwrap(UriInPath).host = Some("evil.example")
    /\ UrlHost(Unwrap(Unwrap(outcome).extension).url) = "rapla.dhbw.de"

=============================================================================
